---- MODULE Spec2Model ----
(***************************************************************************)
(* CacheViz (src/src/app.ts): the cache model of the simulator together    *)
(* with the event handlers that drive it.  An access (processMemoryAccess) *)
(* is an async function; it is modelled by the synchronous segments that   *)
(* lie between its awaits, so that the user events the browser can deliver *)
(* during an animation interleave with it exactly where the code yields.   *)
(***************************************************************************)
EXTENDS Integers, Sequences, FiniteSets, TLC

----------------------------------------------------------------------------
(* Program constants                                                       *)

CACHE_SIZE == 8
BLOCK_SIZE == 16
ASSOCIATIVITY == 2

numSets == CACHE_SIZE \div ASSOCIATIVITY

\* `null' of a CacheLine field (tags and steps are non-negative)
Null == 0 - 1

\* `null' of CacheLine.data
NullData == [kind |-> "null", address |-> 0]

Modes == {"direct", "set-associative", "fully-associative"}

Lines == 0 .. (CACHE_SIZE - 1)
Sets  == 0 .. (numSets - 1)

----------------------------------------------------------------------------
(* Bounds of the model                                                     *)

\* concurrent executeCommand invocations that have not returned yet
MaxProcs == 2
\* executeCommand is offered only while state.step + #commands <= MaxStep
MaxStep == 2
\* resetSimulation calls, in one behaviour, that find an access in flight
MaxRaces == 2
\* highest block number of the addresses that probe the cache in a property
MaxProbeBlock == 23
\* the last two bounds in the specification that runs the long batches
MaxStepDeep == 17
MaxRacesDeep == 0
\* processMemoryAccess is called directly only while state.step < MaxStepCore
MaxStepCore == 3
MaxStepText == 4
\* accesses and racing resets of the specification with fairness
MaxStepLive == 3
MaxRacesLive == 1
\* addLogEntry calls of one run
MaxLogCalls == 53

----------------------------------------------------------------------------
(* Inputs                                                                  *)

LOAD(a)  == [operation |-> "LOAD",  address |-> a]
STORE(a) == [operation |-> "STORE", address |-> a]

\* 0x00 and 0x04 lie in block 0; blocks 0 and 8 share index 0 and set 0
Batches ==
    {<<LOAD(0)>>, <<STORE(4)>>, <<LOAD(128), LOAD(0)>>}

\* blocks 0..7, one per line, index and way
FillBatch == [i \in 1 .. CACHE_SIZE |-> LOAD((i - 1) * BLOCK_SIZE)]

\* block 8 and then blocks 0..7 again: nine misses on a full fully-associative cache
EvictBatch == <<LOAD(CACHE_SIZE * BLOCK_SIZE)>> \o FillBatch

\* a write to block 0 followed by a read of block 8
HitThenMiss == <<STORE(4), LOAD(CACHE_SIZE * BLOCK_SIZE)>>

\* two blocks with the same direct-mode index, whose tags differ under every
\* mode but coincide across modes (block 8 has tag 8 in fully-associative
\* mode, block 64 has tag 8 in direct mode)
AliasBatches == {<<LOAD(128)>>, <<LOAD(1024)>>, <<LOAD(128), LOAD(1024)>>}

DeepBatches == {FillBatch, EvictBatch, HitThenMiss}

\* arguments of a direct call of processMemoryAccess(operation, address):
\* 0x1A4 is block 26 with offset 4, 0x1A0 is the same block, 0xA0 and 0x20
\* share its index and its set; -16 is block -1, -64 is block -4
\* command texts, split at the line breaks, one character per element
\* 'LOAD R1, 0x0'
TextLoad ==
    <<<<"L", "O", "A", "D", " ", "R", "1", ",", " ", "0", "x", "0">>>>

\* '  store r31,0x00000004 '
TextStoreLower ==
    <<<<" ", " ", "s", "t", "o", "r", "e", " ", "r", "3", "1",
         ",", "0", "x", "0", "0", "0", "0", "0", "0", "0", "4", " ">>>>

\* 'LOAD R0, 0x80' / '' / 'Store R7,  0xa0'
TextTwo ==
    <<<<"L", "O", "A", "D", " ", "R", "0", ",", " ", "0", "x",
         "8", "0">>,
      <<>>,
      <<"S", "t", "o", "r", "e", " ", "R", "7", ",", " ", " ",
         "0", "x", "a", "0">>>>

\* '  ' / ''
TextBlank ==
    <<<<" ", " ">>,
      <<>>>>

\* 'LOAD R1, 0x0' / 'LOADR1, 0x0'
TextBadSyntax ==
    <<<<"L", "O", "A", "D", " ", "R", "1", ",", " ", "0", "x", "0">>,
      <<"L", "O", "A", "D", "R", "1", ",", " ", "0", "x", "0">>>>

\* 'LOAD R1, 0x80' / 'LOAD R32, 0x0'
TextBigRegister ==
    <<<<"L", "O", "A", "D", " ", "R", "1", ",", " ", "0", "x",
         "8", "0">>,
      <<"L", "O", "A", "D", " ", "R", "3", "2", ",", " ", "0",
         "x", "0">>>>

\* 'LOAD R1, 0x10' / 'STORE R2, 0x000000010'
TextLongAddress ==
    <<<<"L", "O", "A", "D", " ", "R", "1", ",", " ", "0", "x",
         "1", "0">>,
      <<"S", "T", "O", "R", "E", " ", "R", "2", ",", " ", "0",
         "x", "0", "0", "0", "0", "0", "0", "0", "1", "0">>>>

\* 'LOAD R1, 10'
TextNoPrefix ==
    <<<<"L", "O", "A", "D", " ", "R", "1", ",", " ", "1", "0">>>>

\* the texts whose lines all parse
GoodTexts == {TextLoad, TextStoreLower, TextTwo}

\* the texts with a line that does not parse: syntax, register, address length
BadTexts == {TextBadSyntax, TextBigRegister, TextLongAddress, TextNoPrefix}

Texts == GoodTexts \cup BadTexts \cup {TextBlank}

CoreCalls ==
    {LOAD(0 - 64), LOAD(0 - 16), LOAD(32), LOAD(160), STORE(416), LOAD(420)}

----------------------------------------------------------------------------
(* Address decomposition                                                   *)

\* the % of the language: the result has the sign of the dividend
Rem(a, b) == IF a >= 0 THEN a % b ELSE 0 - ((0 - a) % b)

getOffset(address) == Rem(address, BLOCK_SIZE)

\* getIndex without the division by the block size
getIndexOfAddress(address) == Rem(address, CACHE_SIZE)

getIndex(address) == Rem(address \div BLOCK_SIZE, CACHE_SIZE)

\* getSet without the division by the block size
getSetOfAddress(address) == Rem(address, numSets)

getSet(address) == Rem(address \div BLOCK_SIZE, numSets)

\* getTag that divides by the cache size in set-associative mode as well
getTagBySize(m, address) ==
    LET blockNumber == address \div BLOCK_SIZE
    IN  IF m = "fully-associative" THEN blockNumber
        ELSE blockNumber \div CACHE_SIZE

getTag(m, address) ==
    LET blockNumber == address \div BLOCK_SIZE
    IN  IF m = "direct" THEN blockNumber \div CACHE_SIZE
        ELSE IF m = "set-associative" THEN blockNumber \div numSets
        ELSE blockNumber

----------------------------------------------------------------------------
(* Cache model                                                             *)

Min(S) == CHOOSE x \in S : \A y \in S : x <= y

EmptyLine == [valid |-> FALSE, tag |-> Null, data |-> NullData, lastAccess |-> Null]

\* state.cache and state.setReplacementCounters as initializeCache leaves them
initializeCache ==
    [cache |-> [i \in Lines |-> EmptyLine],
     setReplacementCounters |-> [s \in Sets |-> 0]]

\* lines of the scope that searchCache and findVictimLine scan for an address
Scope(m, address) ==
    IF m = "direct" THEN {getIndex(address)}
    ELSE IF m = "set-associative"
         THEN LET startIdx == getSet(address) * ASSOCIATIVITY
              IN  startIdx .. (startIdx + ASSOCIATIVITY - 1)
         ELSE Lines

searchCache(c, m, tag, address) ==
    IF m = "direct"
    THEN LET index == getIndex(address)
         IN  IF c[index].valid /\ c[index].tag = tag THEN index ELSE 0 - 1
    ELSE IF m = "set-associative"
    THEN LET startIdx == getSet(address) * ASSOCIATIVITY
             found == {i \in startIdx .. (startIdx + ASSOCIATIVITY - 1) :
                          c[i].valid /\ c[i].tag = tag}
         IN  IF found = {} THEN 0 - 1 ELSE Min(found)
    ELSE LET found == {i \in Lines : c[i].valid /\ c[i].tag = tag}
         IN  IF found = {} THEN 0 - 1 ELSE Min(found)

Max(S) == CHOOSE x \in S : \A y \in S : x >= y

\* findVictimLine whose round-robin counters are never advanced
findVictimLineStuck(c, m, counters, next, address) ==
    IF m = "direct"
    THEN [victim |-> getIndex(address), setReplacementCounters |-> counters,
          nextReplacement |-> next]
    ELSE IF m = "set-associative"
    THEN LET setNum == getSet(address)
             startIdx == setNum * ASSOCIATIVITY
             empty == {i \in startIdx .. (startIdx + ASSOCIATIVITY - 1) : ~c[i].valid}
         IN  [victim |-> IF empty # {} THEN Min(empty)
                         ELSE startIdx + counters[setNum],
              setReplacementCounters |-> counters, nextReplacement |-> next]
    ELSE LET empty == {i \in Lines : ~c[i].valid}
         IN  [victim |-> IF empty # {} THEN Min(empty) ELSE next,
              setReplacementCounters |-> counters, nextReplacement |-> next]

\* findVictimLine that scans for an invalid line from the top
findVictimLineFromTop(c, m, counters, next, address) ==
    LET empty == {i \in Scope(m, address) : ~c[i].valid}
    IN  IF m = "direct"
        THEN [victim |-> getIndex(address), setReplacementCounters |-> counters,
              nextReplacement |-> next]
        ELSE IF empty # {}
        THEN [victim |-> Max(empty), setReplacementCounters |-> counters,
              nextReplacement |-> next]
        ELSE IF m = "set-associative"
        THEN [victim |-> getSet(address) * ASSOCIATIVITY + counters[getSet(address)],
              setReplacementCounters |->
                  [counters EXCEPT ![getSet(address)] = (@ + 1) % ASSOCIATIVITY],
              nextReplacement |-> next]
        ELSE [victim |-> next, setReplacementCounters |-> counters,
              nextReplacement |-> (next + 1) % CACHE_SIZE]

\* findVictimLine that prefers an invalid line in direct mode as well
findVictimLineDirectScan(c, m, counters, next, address) ==
    LET empty == {i \in (IF m = "set-associative" THEN Scope(m, address) ELSE Lines) :
                     ~c[i].valid}
    IN  IF empty # {}
        THEN [victim |-> Min(empty), setReplacementCounters |-> counters,
              nextReplacement |-> next]
        ELSE IF m = "direct"
        THEN [victim |-> getIndex(address), setReplacementCounters |-> counters,
              nextReplacement |-> next]
        ELSE IF m = "set-associative"
        THEN [victim |-> getSet(address) * ASSOCIATIVITY + counters[getSet(address)],
              setReplacementCounters |->
                  [counters EXCEPT ![getSet(address)] = (@ + 1) % ASSOCIATIVITY],
              nextReplacement |-> next]
        ELSE [victim |-> next, setReplacementCounters |-> counters,
              nextReplacement |-> (next + 1) % CACHE_SIZE]

\* findVictimLine that evicts the least recently accessed line of a full scope
findVictimLineLRU(c, m, counters, next, address) ==
    LET empty == {i \in Scope(m, address) : ~c[i].valid}
        oldest == {i \in Scope(m, address) :
                      \A j \in Scope(m, address) : c[i].lastAccess <= c[j].lastAccess}
    IN  [victim |-> IF m = "direct" THEN getIndex(address)
                    ELSE IF empty # {} THEN Min(empty) ELSE Min(oldest),
         setReplacementCounters |-> counters, nextReplacement |-> next]

\* findVictimLine that takes the global counter for a full set as well
findVictimLineGlobal(c, m, counters, next, address) ==
    LET empty == {i \in Scope(m, address) : ~c[i].valid}
    IN  IF m = "direct"
        THEN [victim |-> getIndex(address), setReplacementCounters |-> counters,
              nextReplacement |-> next]
        ELSE IF empty # {}
        THEN [victim |-> Min(empty), setReplacementCounters |-> counters,
              nextReplacement |-> next]
        ELSE [victim |-> next, setReplacementCounters |-> counters,
              nextReplacement |-> (next + 1) % CACHE_SIZE]

\* findVictimLine that advances both kinds of counters on a round-robin eviction
findVictimLineBothCounters(c, m, counters, next, address) ==
    LET empty == {i \in Scope(m, address) : ~c[i].valid}
        setNum == getSet(address)
    IN  IF m = "direct"
        THEN [victim |-> getIndex(address), setReplacementCounters |-> counters,
              nextReplacement |-> next]
        ELSE IF empty # {}
        THEN [victim |-> Min(empty), setReplacementCounters |-> counters,
              nextReplacement |-> next]
        ELSE [victim |-> IF m = "set-associative"
                         THEN setNum * ASSOCIATIVITY + counters[setNum] ELSE next,
              setReplacementCounters |->
                  [counters EXCEPT ![setNum] = (@ + 1) % ASSOCIATIVITY],
              nextReplacement |-> (next + 1) % CACHE_SIZE]

\* the victim, and the two kinds of replacement counters as the call leaves them
findVictimLine(c, m, counters, next, address) ==
    IF m = "direct"
    THEN [victim |-> getIndex(address), setReplacementCounters |-> counters,
          nextReplacement |-> next]
    ELSE IF m = "set-associative"
    THEN LET setNum == getSet(address)
             startIdx == setNum * ASSOCIATIVITY
             empty == {i \in startIdx .. (startIdx + ASSOCIATIVITY - 1) : ~c[i].valid}
         IN  IF empty # {}
             THEN [victim |-> Min(empty), setReplacementCounters |-> counters,
                   nextReplacement |-> next]
             ELSE [victim |-> startIdx + counters[setNum],
                   setReplacementCounters |->
                       [counters EXCEPT ![setNum] = (counters[setNum] + 1) % ASSOCIATIVITY],
                   nextReplacement |-> next]
    ELSE LET empty == {i \in Lines : ~c[i].valid}
         IN  IF empty # {}
             THEN [victim |-> Min(empty), setReplacementCounters |-> counters,
                   nextReplacement |-> next]
             ELSE [victim |-> next, setReplacementCounters |-> counters,
                   nextReplacement |-> (next + 1) % CACHE_SIZE]

\* what is written into data on a fill / on a STORE hit
BlockData(address) == [kind |-> "Block", address |-> address]
WriteData(address) == [kind |-> "Write", address |-> address]

\* the hit branch with the data rewritten by a LOAD as well
hitCacheLineRefills(c, lineIndex, operation, address, now) ==
    [c EXCEPT ![lineIndex] =
        [@ EXCEPT !.lastAccess = now,
                  !.data = IF operation = "STORE" THEN WriteData(address)
                           ELSE BlockData(address)]]

\* the hit branch with a STORE that invalidates the line it hits
hitCacheLineInvalidates(c, lineIndex, operation, address, now) ==
    [c EXCEPT ![lineIndex] =
        [@ EXCEPT !.lastAccess = now,
                  !.valid = (operation # "STORE"),
                  !.data = IF operation = "STORE" THEN WriteData(address) ELSE @]]

\* the assignments of the hit branch of processMemoryAccess to state.cache
hitCacheLine(c, lineIndex, operation, address, now) ==
    [c EXCEPT ![lineIndex] =
        [@ EXCEPT !.lastAccess = now,
                  !.data = IF operation = "STORE" THEN WriteData(address) ELSE @]]

updateCacheLine(c, lineIndex, tag, data, now) ==
    [c EXCEPT ![lineIndex] = [valid |-> TRUE, tag |-> tag, data |-> data,
                              lastAccess |-> now]]

----------------------------------------------------------------------------
(* State                                                                   *)

----------------------------------------------------------------------------
(* Command parsing                                                         *)

Space == {" ", "\t"}
Digit == {"0", "1", "2", "3", "4", "5", "6", "7", "8", "9"}
HexDigits ==
    <<"0", "1", "2", "3", "4", "5", "6", "7", "8", "9",
      "A", "B", "C", "D", "E", "F">>
Lower ==
    <<"a", "b", "c", "d", "e", "f", "g", "h", "i", "j", "k", "l", "m",
      "n", "o", "p", "q", "r", "s", "t", "u", "v", "w", "x", "y", "z">>
Upper ==
    <<"A", "B", "C", "D", "E", "F", "G", "H", "I", "J", "K", "L", "M",
      "N", "O", "P", "Q", "R", "S", "T", "U", "V", "W", "X", "Y", "Z">>

toUpperCase(ch) ==
    IF \E i \in DOMAIN Lower : Lower[i] = ch
    THEN Upper[CHOOSE i \in DOMAIN Lower : Lower[i] = ch]
    ELSE ch

\* [0-9A-Fa-f]
Hex == {ch \in Digit \cup {Lower[i] : i \in DOMAIN Lower}
                     \cup {Upper[i] : i \in DOMAIN Upper} :
           \E i \in DOMAIN HexDigits : HexDigits[i] = toUpperCase(ch)}

\* String.prototype.trim
trim(str) ==
    LET kept == {i \in DOMAIN str : str[i] \notin Space}
    IN  IF kept = {} THEN <<>> ELSE SubSeq(str, Min(kept), Max(kept))

\* the end of the longest run of characters of a class that starts at from
Run(str, from, class) ==
    Min({i \in from .. Len(str) + 1 : i = Len(str) + 1 \/ str[i] \notin class})

\* trimmed.match(/^(LOAD|STORE)\s+R(\d+),\s*0x([0-9A-Fa-f]+)$/i): the three
\* groups, or <<>> for null
match(trimmed) ==
    LET u == [i \in DOMAIN trimmed |-> toUpperCase(trimmed[i])]
        StartsWith(word) ==
            Len(u) >= Len(word) /\ SubSeq(u, 1, Len(word)) = word
        k == IF StartsWith(<<"L", "O", "A", "D">>) THEN 4
             ELSE IF StartsWith(<<"S", "T", "O", "R", "E">>) THEN 5 ELSE 0
        r == Run(u, k + 1, Space)
        comma == Run(u, r + 1, Digit)
        zero == Run(u, comma + 1, Space)
        end == Run(u, zero + 2, Hex)
    IN  IF /\ k > 0
           /\ r > k + 1 /\ r <= Len(u) /\ u[r] = "R"
           /\ comma > r + 1 /\ comma <= Len(u) /\ u[comma] = ","
           /\ zero + 1 <= Len(u) /\ u[zero] = "0" /\ u[zero + 1] = "X"
           /\ end > zero + 2 /\ end = Len(u) + 1
        THEN <<SubSeq(trimmed, 1, k), SubSeq(trimmed, r + 1, comma - 1),
               SubSeq(trimmed, zero + 2, Len(u))>>
        ELSE <<>>

\* parseInt of a string of digits of the radix
RECURSIVE parseInt(_, _)
parseInt(str, radix) ==
    IF str = <<>> THEN 0
    ELSE parseInt(SubSeq(str, 1, Len(str) - 1), radix) * radix
         + (CHOOSE i \in DOMAIN HexDigits :
                HexDigits[i] = toUpperCase(str[Len(str)])) - 1

\* addrStr.replace(/0x/i, ""): the first "0x" is taken out
replace0x(addrStr) ==
    LET at == {i \in 1 .. Len(addrStr) - 1 :
                  addrStr[i] = "0" /\ toUpperCase(addrStr[i + 1]) = "X"}
    IN  IF at = {} THEN addrStr
        ELSE SubSeq(addrStr, 1, Min(at) - 1)
             \o SubSeq(addrStr, Min(at) + 2, Len(addrStr))

parseAddress(addrStr) == parseInt(replace0x(addrStr), 16)

\* the result of executeSingleCommand: a command, null, or a thrown error
Parsed(kind, operation, address) ==
    [kind |-> kind, operation |-> operation, address |-> address]

\* executeSingleCommand without the check of the register number
executeSingleCommandAnyRegister(command) ==
    LET groups == match(trim(command))
    IN  IF trim(command) = <<>> \/ groups = <<>> THEN Parsed("null", "", Null)
        ELSE IF Len(groups[3]) < 1 \/ Len(groups[3]) > 8
        THEN Parsed("address", "", Null)
        ELSE Parsed("command",
                    IF toUpperCase(groups[1][1]) = "L" THEN "LOAD" ELSE "STORE",
                    parseAddress(groups[3]))

executeSingleCommand(command) ==
    LET groups == match(trim(command))
    IN  IF trim(command) = <<>> \/ groups = <<>> THEN Parsed("null", "", Null)
        ELSE IF parseInt(groups[2], 10) < 0 \/ parseInt(groups[2], 10) > 31
        THEN Parsed("register", "", Null)
        ELSE IF Len(groups[3]) < 1 \/ Len(groups[3]) > 8
        THEN Parsed("address", "", Null)
        ELSE Parsed("command",
                    IF toUpperCase(groups[1][1]) = "L" THEN "LOAD" ELSE "STORE",
                    parseAddress(groups[3]))

----------------------------------------------------------------------------
(* Event log                                                               *)

\* the number of entries addLogEntry keeps
LOG_LIMIT == 50

\* `MODE -> ${state.mode.replace("-", " ").toUpperCase()}'
ModeMessage(m) ==
    IF m = "direct" THEN "MODE -> DIRECT"
    ELSE IF m = "set-associative" THEN "MODE -> SET ASSOCIATIVE"
    ELSE "MODE -> FULLY ASSOCIATIVE"

\* the messages a handler logs when it refuses to run during an animation
LogCalls ==
    {[message |-> "Animation in progress, please wait...", type |-> "info"]}

\* addLogEntry without the loop that removes the last children
addLogEntryUntrimmed(log, message, type, time) ==
    <<[message |-> message, type |-> type, time |-> time]>> \o log

\* the log after addLogEntry: the entry is inserted before the first child,
\* then last children are removed while there are more than 50
addLogEntry(log, message, type, time) ==
    LET inserted == <<[message |-> message, type |-> type, time |-> time]>> \o log
    IN  IF Len(inserted) > LOG_LIMIT THEN SubSeq(inserted, 1, LOG_LIMIT)
        ELSE inserted

VARIABLES
    cache,                   \* state.cache
    hits,                    \* state.hits
    misses,                  \* state.misses
    isAnimating,             \* state.isAnimating
    nextReplacement,         \* state.nextReplacement
    step,                    \* state.step
    mode,                    \* state.mode
    setReplacementCounters,  \* state.setReplacementCounters
    resetModal,              \* dom.resetModal.style.display
    procs,                   \* the executeCommand invocations that have not returned
    lastOp,                  \* history: the handler that ran last
    tagMode,                 \* history: the mode under which each line's tag was computed
    filled,                  \* history: blocks filled into the line since it was last chosen or cleared
    ref,                     \* history: the cache a strictly sequential run would hold
    rr,                      \* history: round-robin evictions since initializeCache
    races,                   \* history: resetSimulation calls that found an access in flight
    fifo,                    \* history: the lines in the order of their latest fill
    eventLog,                \* dom.eventLog.children, first child first
    logged                   \* history: the addLogEntry calls, in all and since the log was emptied

vars == <<cache, hits, misses, isAnimating, nextReplacement, step, mode,
          setReplacementCounters, resetModal, procs, lastOp, tagMode, filled,
          ref, rr, races, fifo, eventLog, logged>>

Procs == 1 .. MaxProcs

NoOutcome == [outcome |-> "none", lineIndex |-> Null, evictedTag |-> Null]

\* a slot without an invocation
NoProc ==
    [pc |-> "none", commands |-> <<>>, tag |-> Null, lineIndex |-> Null,
     replacedTag |-> Null, tagMode |-> "none", fresh |-> FALSE,
     expect |-> NoOutcome]

Other == [op |-> "other", from |-> "none", valid |-> 0, counters |-> FALSE]

\* some replacement counter is not 0
CountersMoved ==
    nextReplacement # 0 \/ \E s \in Sets : setReplacementCounters[s] # 0

FreshRef ==
    [cache |-> initializeCache.cache,
     setReplacementCounters |-> initializeCache.setReplacementCounters,
     nextReplacement |-> 0]

FreshRR == [set |-> [s \in Sets |-> 0], global |-> 0]

ValidLines(c) == {i \in Lines : c[i].valid}

\* the state object as declared, after the DOMContentLoaded initializer
Init ==
    /\ cache = initializeCache.cache
    /\ setReplacementCounters = initializeCache.setReplacementCounters
    /\ hits = 0
    /\ misses = 0
    /\ isAnimating = FALSE
    /\ nextReplacement = 0
    /\ step = 0
    /\ mode = "fully-associative"
    /\ resetModal = "none"
    /\ procs = [p \in Procs |-> NoProc]
    /\ lastOp = [op |-> "init", from |-> "none", valid |-> 0, counters |-> FALSE]
    /\ tagMode = [i \in Lines |-> "none"]
    /\ filled = [i \in Lines |-> {}]
    /\ ref = FreshRef
    /\ rr = FreshRR
    /\ races = 0
    /\ fifo = <<>>
    /\ eventLog = <<>>
    /\ logged = [calls |-> 0, kept |-> 0, reset |-> FALSE]

----------------------------------------------------------------------------
(* processMemoryAccess, one action per synchronous segment                 *)

\* the guard and the statements up to `await triggerCpuProcessing()'
beginAccess(p, commands) ==
    /\ isAnimating' = TRUE
    /\ step' = step + 1
    /\ procs' = [procs EXCEPT ![p] =
                    [NoProc EXCEPT !.pc = "cpu", !.commands = commands,
                                   !.fresh = TRUE]]

\* what the continuation of executeCommand does once the access has returned
afterAccess(proc) ==
    IF Len(proc.commands) > 1
    THEN [NoProc EXCEPT !.pc = "delay", !.commands = Tail(proc.commands)]
    ELSE NoProc

\* the outcome of the same access on the strictly sequential cache
RefAccess(r, m, address) ==
    LET tag == getTag(m, address)
        lineIndex == searchCache(r.cache, m, tag, address)
        fv == findVictimLine(r.cache, m, r.setReplacementCounters,
                             r.nextReplacement, address)
    IN  IF lineIndex # 0 - 1
        THEN [ref |-> r,
              expect |-> [outcome |-> "HIT", lineIndex |-> lineIndex,
                          evictedTag |-> Null]]
        ELSE [ref |-> [cache |-> updateCacheLine(r.cache, fv.victim, tag,
                                                 NullData, Null),
                       setReplacementCounters |-> fv.setReplacementCounters,
                       nextReplacement |-> fv.nextReplacement],
              expect |-> [outcome |-> "MISS", lineIndex |-> fv.victim,
                          evictedTag |-> IF r.cache[fv.victim].valid
                                         THEN r.cache[fv.victim].tag ELSE Null]]

\* from getTag to the await of animateCacheHit / animateCacheMiss
lookup(p) ==
    /\ procs[p].pc = "cpu"
    /\ LET operation == Head(procs[p].commands).operation
           address == Head(procs[p].commands).address
           tag == getTag(mode, address)
           lineIndex == searchCache(cache, mode, tag, address)
           fv == findVictimLine(cache, mode, setReplacementCounters,
                                nextReplacement, address)
           ra == RefAccess(ref, mode, address)
       IN  IF ~(Scope(mode, address) \subseteq Lines)
           THEN \* state.cache[i] is undefined: searchCache throws a TypeError,
                \* the promise is rejected and executeCommand logs the error
                /\ procs' = [procs EXCEPT ![p] = afterAccess(procs[p])]
                /\ UNCHANGED <<cache, hits, misses, setReplacementCounters,
                               nextReplacement, filled, rr, ref>>
           ELSE
           /\ IF lineIndex # 0 - 1
              THEN /\ hits' = hits + 1
                   /\ cache' = hitCacheLine(cache, lineIndex, operation, address, step)
                   /\ procs' = [procs EXCEPT ![p] =
                         [@ EXCEPT !.pc = "hit", !.tag = tag,
                                   !.lineIndex = lineIndex, !.tagMode = mode,
                                   !.expect = IF procs[p].fresh THEN ra.expect ELSE NoOutcome]]
                   /\ UNCHANGED <<misses, setReplacementCounters,
                                  nextReplacement, filled, rr>>
              ELSE /\ misses' = misses + 1
                   /\ setReplacementCounters' = fv.setReplacementCounters
                   /\ nextReplacement' = fv.nextReplacement
                   /\ procs' = [procs EXCEPT ![p] =
                         [@ EXCEPT !.pc = "miss", !.tag = tag,
                                   !.lineIndex = fv.victim,
                                   !.replacedTag = IF cache[fv.victim].valid
                                                   THEN cache[fv.victim].tag
                                                   ELSE Null,
                                   !.tagMode = mode,
                                   !.expect = IF procs[p].fresh THEN ra.expect ELSE NoOutcome]]
                   /\ filled' = [filled EXCEPT ![fv.victim] = {}]
                   /\ rr' = IF fv.setReplacementCounters # setReplacementCounters
                            THEN [rr EXCEPT !.set[getSet(address)] = @ + 1]
                            ELSE IF fv.nextReplacement # nextReplacement
                            THEN [rr EXCEPT !.global = @ + 1]
                            ELSE rr
                   /\ UNCHANGED <<hits, cache>>
           /\ ref' = IF procs[p].fresh THEN ra.ref ELSE ref
    /\ lastOp' = Other
    /\ UNCHANGED <<isAnimating, step, mode, resetModal, tagMode, races, fifo, eventLog, logged>>

\* animateCacheMiss at its updateCacheLine call
fill(p) ==
    /\ procs[p].pc = "miss"
    /\ LET address == Head(procs[p].commands).address
           lineIndex == procs[p].lineIndex
       IN  /\ cache' = updateCacheLine(cache, lineIndex, procs[p].tag,
                                       BlockData(address), step)
           /\ tagMode' = [tagMode EXCEPT ![lineIndex] = procs[p].tagMode]
           /\ filled' = [filled EXCEPT ![lineIndex] = @ \cup {address \div BLOCK_SIZE}]
           /\ fifo' = Append(SelectSeq(fifo, LAMBDA i : i # lineIndex), lineIndex)
    /\ procs' = [procs EXCEPT ![p].pc = "filled"]
    /\ lastOp' = Other
    /\ UNCHANGED <<hits, misses, isAnimating, nextReplacement, step, mode,
                   setReplacementCounters, resetModal, ref, rr, races,
                   eventLog, logged>>

\* finish without `state.isAnimating = false'
finishStillAnimating(p) ==
    /\ procs[p].pc \in {"hit", "filled"}
    /\ procs' = [procs EXCEPT ![p] = afterAccess(procs[p])]
    /\ lastOp' = Other
    /\ UNCHANGED <<cache, hits, misses, isAnimating, nextReplacement, step, mode,
                   setReplacementCounters, resetModal, tagMode, filled, ref, rr, races, fifo, eventLog, logged>>

\* the statements after the animation, and the return into executeCommand
finish(p) ==
    /\ procs[p].pc \in {"hit", "filled"}
    /\ isAnimating' = FALSE
    /\ procs' = [procs EXCEPT ![p] = afterAccess(procs[p])]
    /\ lastOp' = Other
    /\ UNCHANGED <<cache, hits, misses, nextReplacement, step, mode,
                   setReplacementCounters, resetModal, tagMode, filled, ref, rr, races, fifo, eventLog, logged>>

----------------------------------------------------------------------------
(* Event handlers                                                          *)

\* click on Execute, Ctrl+Enter, or an example item: commands is the parsed
\* text; the first processMemoryAccess call runs in the same task
executeCommand(commands, limit, slots) ==
    /\ step + Len(commands) <= limit
    /\ \E p \in 1 .. slots : procs[p].pc = "none"
    /\ IF isAnimating
       THEN /\ lastOp' = Other
            /\ UNCHANGED <<cache, hits, misses, isAnimating, nextReplacement,
                           step, mode, setReplacementCounters, resetModal,
                           procs, tagMode, filled, ref, rr, races, fifo, eventLog, logged>>
       ELSE /\ beginAccess(Min({p \in Procs : procs[p].pc = "none"}), commands)
            /\ lastOp' = Other
            /\ UNCHANGED <<cache, hits, misses, nextReplacement, mode,
                           setReplacementCounters, resetModal, tagMode, filled,
                           ref, rr, races, fifo, eventLog, logged>>

\* executeCommand from the text of the command input
executeCommandText(commandText, limit, slots) ==
    LET lines == SelectSeq([i \in DOMAIN commandText |-> trim(commandText[i])],
                           LAMBDA l : Len(l) > 0)
        parsed == [i \in DOMAIN lines |-> executeSingleCommand(lines[i])]
        failed == {i \in DOMAIN lines : parsed[i].kind # "command"}
        commands == [i \in DOMAIN lines |->
                        [operation |-> parsed[i].operation,
                         address |-> parsed[i].address]]
    IN  /\ step + Len(lines) <= limit
        /\ \E p \in 1 .. slots : procs[p].pc = "none"
        /\ IF Len(lines) = 0 \/ isAnimating
           THEN /\ lastOp' = Other
                /\ UNCHANGED <<isAnimating, step, procs>>
           ELSE IF failed # {}
           THEN /\ lastOp' = [Other EXCEPT !.op = "parseError",
                                           !.from = parsed[Min(failed)].kind]
                /\ UNCHANGED <<isAnimating, step, procs>>
           ELSE /\ beginAccess(Min({p \in Procs : procs[p].pc = "none"}),
                               commands)
                /\ lastOp' = Other
        /\ UNCHANGED <<cache, hits, misses, nextReplacement, mode,
                       setReplacementCounters, resetModal, tagMode, filled,
                       ref, rr, races, fifo, eventLog, logged>>

\* a call of addLogEntry; the time of the entry is the number of the call
logEntry(message, type) ==
    /\ logged.calls < MaxLogCalls
    /\ eventLog' = addLogEntry(eventLog, message, type, logged.calls + 1)
    /\ logged' = [logged EXCEPT !.calls = @ + 1, !.kept = @ + 1]
    /\ UNCHANGED <<cache, hits, misses, isAnimating, nextReplacement, step, mode,
                   setReplacementCounters, resetModal, procs, lastOp, tagMode,
                   filled, ref, rr, races, fifo>>

\* the statements of resetSimulation on the event log: innerHTML = "",
\* then the RESET and the MODE entry
resetSimulationLog ==
    /\ logged.calls + 2 <= MaxLogCalls
    /\ eventLog' = addLogEntry(addLogEntry(<<>>, "RESET -> Simulation ready",
                                           "info", logged.calls + 1),
                               ModeMessage(mode), "info", logged.calls + 2)
    /\ logged' = [calls |-> logged.calls + 2, kept |-> 2, reset |-> TRUE]
    /\ UNCHANGED <<cache, hits, misses, isAnimating, nextReplacement, step, mode,
                   setReplacementCounters, resetModal, procs, lastOp, tagMode,
                   filled, ref, rr, races, fifo>>

\* the 300 ms timer between two commands of a batch has fired
nextCommand(p) ==
    /\ procs[p].pc = "delay"
    /\ IF isAnimating
       THEN /\ procs' = [procs EXCEPT ![p] = afterAccess(procs[p])]
            /\ UNCHANGED <<isAnimating, step>>
       ELSE beginAccess(p, procs[p].commands)
    /\ lastOp' = Other
    /\ UNCHANGED <<cache, hits, misses, nextReplacement, mode,
                   setReplacementCounters, resetModal, tagMode, filled, ref, rr, races, fifo, eventLog, logged>>

\* click on Reset
showResetModal ==
    /\ IF isAnimating
       THEN /\ lastOp' = Other
            /\ UNCHANGED resetModal
       ELSE /\ resetModal' = "flex"
            /\ lastOp' = Other
    /\ UNCHANGED <<cache, hits, misses, isAnimating, nextReplacement, step,
                   mode, setReplacementCounters, procs, tagMode, filled, ref, rr, races, fifo, eventLog, logged>>

\* Cancel, the overlay or Escape while the modal is shown
hideResetModal ==
    /\ resetModal = "flex"
    /\ resetModal' = "none"
    /\ lastOp' = Other
    /\ UNCHANGED <<cache, hits, misses, isAnimating, nextReplacement, step,
                   mode, setReplacementCounters, procs, tagMode, filled, ref, rr, races, fifo, eventLog, logged>>

\* some processMemoryAccess call is between its guard and its return
InFlight == \E p \in Procs : procs[p].pc \in {"cpu", "hit", "miss", "filled"}

\* resetSimulation without `state.nextReplacement = 0'
resetSimulationKeepsNext ==
    /\ hits' = 0
    /\ misses' = 0
    /\ UNCHANGED nextReplacement
    /\ step' = 0
    /\ isAnimating' = FALSE
    /\ cache' = initializeCache.cache
    /\ setReplacementCounters' = initializeCache.setReplacementCounters
    /\ resetModal' = "none"
    /\ procs' = [p \in Procs |->
                    [procs[p] EXCEPT !.fresh = FALSE, !.expect = NoOutcome]]
    /\ tagMode' = [i \in Lines |-> "none"]
    /\ filled' = [i \in Lines |-> {}]
    /\ ref' = FreshRef
    /\ rr' = FreshRR
    /\ races' = IF InFlight THEN races + 1 ELSE races
    /\ fifo' = <<>>
    /\ UNCHANGED <<eventLog, logged>>

\* everything resetSimulation assigns; state.mode is left to the caller
resetSimulation ==
    /\ hits' = 0
    /\ misses' = 0
    /\ nextReplacement' = 0
    /\ step' = 0
    /\ isAnimating' = FALSE
    /\ cache' = initializeCache.cache
    /\ setReplacementCounters' = initializeCache.setReplacementCounters
    /\ resetModal' = "none"
    /\ procs' = [p \in Procs |->
                    [procs[p] EXCEPT !.fresh = FALSE, !.expect = NoOutcome]]
    /\ tagMode' = [i \in Lines |-> "none"]
    /\ filled' = [i \in Lines |-> {}]
    /\ ref' = FreshRef
    /\ rr' = FreshRR
    /\ races' = IF InFlight THEN races + 1 ELSE races
    /\ fifo' = <<>>
    /\ UNCHANGED <<eventLog, logged>>

\* click on the Reset button of the modal
modalConfirm(raceLimit) ==
    /\ resetModal = "flex"
    /\ InFlight => races < raceLimit
    /\ resetSimulation
    /\ lastOp' = [op |-> "reset", from |-> mode,
                  valid |-> Cardinality(ValidLines(cache)),
                  counters |-> CountersMoved]
    /\ UNCHANGED mode

\* handleModeChange without its resetSimulation call
handleModeChangeNoReset(newMode, raceLimit) ==
    /\ newMode # mode
    /\ IF isAnimating
       THEN /\ lastOp' = [Other EXCEPT !.op = "modeRefused"]
            /\ UNCHANGED mode
       ELSE /\ mode' = newMode
            /\ lastOp' = [op |-> "modeChange", from |-> mode,
                          valid |-> Cardinality(ValidLines(cache)),
                          counters |-> CountersMoved]
    /\ UNCHANGED <<cache, hits, misses, isAnimating, nextReplacement, step,
                   setReplacementCounters, resetModal, procs, tagMode, filled,
                   ref, rr, races, fifo, eventLog, logged>>

\* change event of a mode radio button
handleModeChange(newMode, raceLimit) ==
    /\ newMode # mode
    /\ IF isAnimating
       THEN /\ lastOp' = [Other EXCEPT !.op = "modeRefused"]
            /\ UNCHANGED <<cache, hits, misses, isAnimating, nextReplacement,
                           step, mode, setReplacementCounters, resetModal,
                           procs, tagMode, filled, ref, rr, races, fifo, eventLog, logged>>
       ELSE /\ InFlight => races < raceLimit
            /\ mode' = newMode
            /\ resetSimulation
            /\ lastOp' = [op |-> "modeChange", from |-> mode,
                          valid |-> Cardinality(ValidLines(cache)),
                          counters |-> CountersMoved]

----------------------------------------------------------------------------
(* Specifications                                                          *)

Next ==
    \/ \E commands \in Batches : executeCommand(commands, MaxStep, MaxProcs)
    \/ \E p \in Procs : lookup(p)
    \/ \E p \in Procs : fill(p)
    \/ \E p \in Procs : finish(p)
    \/ \E p \in Procs : nextCommand(p)
    \/ showResetModal
    \/ hideResetModal
    \/ modalConfirm(MaxRaces)
    \/ \E newMode \in Modes : handleModeChange(newMode, MaxRaces)

Spec == Init /\ [][Next]_vars

\* no executeCommand invocation is pending
Quiet == \A p \in Procs : procs[p].pc = "none"

\* the same handlers, driven with the long batches, one batch at a time
NextDeep ==
    \/ \E commands \in DeepBatches :
          Quiet /\ executeCommand(commands, MaxStepDeep, MaxProcs)
    \/ \E p \in Procs : lookup(p)
    \/ \E p \in Procs : fill(p)
    \/ \E p \in Procs : finish(p)
    \/ \E p \in Procs : nextCommand(p)
    \/ showResetModal
    \/ hideResetModal
    \/ modalConfirm(MaxRacesDeep)
    \/ \E newMode \in Modes : handleModeChange(newMode, MaxRacesDeep)

SpecDeep == Init /\ [][NextDeep]_vars

\* a direct call of the access function by a caller that awaits its return
processMemoryAccess(operation, address) ==
    /\ step < MaxStepCore
    /\ Quiet
    /\ IF isAnimating
       THEN UNCHANGED <<isAnimating, step, procs>>
       ELSE beginAccess(1, <<[operation |-> operation, address |-> address]>>)
    /\ lastOp' = Other
    /\ UNCHANGED <<cache, hits, misses, nextReplacement, mode,
                   setReplacementCounters, resetModal, tagMode, filled, ref,
                   rr, races, fifo, eventLog, logged>>

\* the access function driven over its parameter type, one call at a time
NextCore ==
    \/ \E call \in CoreCalls : processMemoryAccess(call.operation, call.address)
    \/ \E p \in Procs : lookup(p)
    \/ \E p \in Procs : fill(p)
    \/ \E p \in Procs : finish(p)
    \/ \E newMode \in Modes : handleModeChange(newMode, MaxRacesDeep)

SpecCore == Init /\ [][NextCore]_vars

\* the handlers driven from the command input, one batch at a time
NextText ==
    \/ \E commandText \in Texts : executeCommandText(commandText, MaxStepText, 1)
    \/ \E p \in Procs : lookup(p)
    \/ \E p \in Procs : fill(p)
    \/ \E p \in Procs : finish(p)
    \/ \E p \in Procs : nextCommand(p)
    \/ \E newMode \in Modes : handleModeChange(newMode, MaxRacesDeep)

SpecText == Init /\ [][NextText]_vars

\* every handler, driven with accesses to blocks that share tags across modes
NextAlias ==
    \/ \E commands \in AliasBatches : executeCommand(commands, MaxStep, MaxProcs)
    \/ \E p \in Procs : lookup(p)
    \/ \E p \in Procs : fill(p)
    \/ \E p \in Procs : finish(p)
    \/ \E p \in Procs : nextCommand(p)
    \/ showResetModal
    \/ hideResetModal
    \/ modalConfirm(MaxRaces)
    \/ \E newMode \in Modes : handleModeChange(newMode, MaxRaces)

SpecAlias == Init /\ [][NextAlias]_vars

\* every handler, one executeCommand invocation at a time
NextLive ==
    \/ \E commands \in Batches : executeCommand(commands, MaxStepLive, 1)
    \/ \E p \in Procs : lookup(p)
    \/ \E p \in Procs : fill(p)
    \/ \E p \in Procs : finish(p)
    \/ \E p \in Procs : nextCommand(p)
    \/ showResetModal
    \/ hideResetModal
    \/ modalConfirm(MaxRacesLive)
    \/ \E newMode \in Modes : handleModeChange(newMode, MaxRacesLive)

\* the event log, which the handlers write and none reads, driven by
\* calls of addLogEntry and by the log statements of resetSimulation
NextLog ==
    \/ \E call \in LogCalls : logEntry(call.message, call.type)
    \/ resetSimulationLog

SpecLog == Init /\ [][NextLog]_vars

\* every timer and animation frame that an access awaits fires: each
\* continuation of processMemoryAccess that is ready to run does run
SpecLive ==
    /\ Init
    /\ [][NextLive]_vars
    /\ \A p \in Procs :
          WF_vars(lookup(p)) /\ WF_vars(fill(p)) /\ WF_vars(finish(p))

----------------------------------------------------------------------------
(* Properties                                                              *)

Cleared ==
    /\ DOMAIN cache = Lines
    /\ \A i \in Lines :
          /\ ~cache[i].valid
          /\ cache[i].tag = Null
          /\ cache[i].data = NullData
          /\ cache[i].lastAccess = Null
    /\ DOMAIN setReplacementCounters = Sets
    /\ \A s \in Sets : setReplacementCounters[s] = 0
    /\ nextReplacement = 0
    /\ hits = 0
    /\ misses = 0
    /\ step = 0

\* C2: no two valid lines of one search scope hold the same tag: none of
\* the whole array in fully-associative mode, none of one set in
\* set-associative mode.
C2_NoDuplicateTags ==
    \A i, j \in Lines :
        (i # j /\ cache[i].valid /\ cache[j].valid /\ cache[i].tag = cache[j].tag)
            => /\ mode # "fully-associative"
               /\ mode = "set-associative"
                     => (i \div ASSOCIATIVITY) # (j \div ASSOCIATIVITY)

\* C7: right after an accepted mode change from M1 to another mode M2 all
\* 8 lines are invalid with tag, data and lastAccess unset, every per-set
\* counter and the global counter are 0, and hits, misses and step are 0.
C7_ModeSwitchClears ==
    lastOp.op = "modeChange" => (mode # lastOp.from /\ Cleared)

\* a mode change that found valid lines has just been accepted
C7_Witness ==
    /\ lastOp.op = "modeChange"
    /\ lastOp.valid > 0
    /\ mode # lastOp.from

\* C10: right after resetSimulation (the modal's confirm button) all 8
\* lines are invalid and unset, the 4 per-set counters and nextReplacement
\* are 0, hits = misses = step = 0, and state.mode is what it was.
C10_ResetRestoresInitial ==
    lastOp.op = "reset" => (mode = lastOp.from /\ Cleared)

\* a reset of a cache that held valid lines and had evicted round-robin
C10_Witness ==
    /\ lastOp.op = "reset"
    /\ lastOp.valid = CACHE_SIZE
    /\ lastOp.counters


\* the outcome an access reports while it is being animated
Report(proc) ==
    [outcome |-> IF proc.pc = "hit" THEN "HIT" ELSE "MISS",
     lineIndex |-> proc.lineIndex,
     evictedTag |-> proc.replacedTag]

\* the step is the lookup of process p
Looked(p) == procs[p].pc = "cpu" /\ procs'[p].pc # "cpu"

\* the step is the lookup of process p and it missed
Missed(p) == procs[p].pc = "cpu" /\ procs'[p].pc = "miss"

\* the step is the fill of process p
Filled(p) == procs[p].pc = "miss" /\ procs'[p].pc = "filled"

Address(p) == Head(procs[p].commands).address

\* addresses of the blocks 0 .. MaxProbeBlock, two offsets each
ProbeAddresses ==
    {b * BLOCK_SIZE + o : b \in 0 .. MaxProbeBlock, o \in {0, 4}}

\* C1: once a miss on address a has been filled into line L, and until a
\* reset, a mode change or a miss that chooses L as its victim, every access
\* to an address of the block of a reports HIT at line L.
C1_HitAfterFill ==
    [][\A p \in Procs :
          Looked(p) =>
              \A L \in Lines :
                  (Address(p) \div BLOCK_SIZE) \in filled[L]
                      => (procs'[p].pc = "hit" /\ procs'[p].lineIndex = L)]_vars

\* C3: direct-mapped mode.  An access whose line `index' holds another tag
\* is a MISS with victim `index' and reports the tag held there as evicted,
\* whatever hits that line has seen; once it is filled, every address with
\* the same index and a different tag misses.
C3_DirectEvicts ==
    [][\A p \in Procs :
          /\ (mode = "direct" /\ Looked(p)) =>
                LET index == getIndex(Address(p))
                IN  (cache[index].valid
                       /\ cache[index].tag # getTag("direct", Address(p)))
                        => /\ procs'[p].pc = "miss"
                           /\ procs'[p].lineIndex = index
                           /\ procs'[p].replacedTag = cache[index].tag
          /\ (mode = "direct" /\ procs[p].tagMode = "direct" /\ Filled(p)) =>
                \A first \in ProbeAddresses :
                    (getIndex(first) = getIndex(Address(p))
                       /\ getTag("direct", first) # getTag("direct", Address(p)))
                        => searchCache(cache', "direct",
                                       getTag("direct", first), first) = 0 - 1]_vars

\* a direct-mapped miss is about to replace a line that a STORE had hit
C3_Witness ==
    \E p \in Procs :
        /\ mode = "direct"
        /\ procs[p].pc = "miss"
        /\ procs[p].replacedTag # Null
        /\ cache[procs[p].lineIndex].valid
        /\ cache[procs[p].lineIndex].tag = procs[p].replacedTag
        /\ cache[procs[p].lineIndex].data.kind = "Write"

\* C4: set-associative mode.  A miss on set s whose two lines are valid
\* takes line s*2 + counter[s] and leaves counter[s] advanced by one modulo
\* 2; the first such miss of a set after a reset takes line s*2.
C4_SetRoundRobin ==
    [][\A p \in Procs :
          (mode = "set-associative" /\ Missed(p)) =>
              LET s == getSet(Address(p))
                  startIdx == s * ASSOCIATIVITY
              IN  (\A i \in startIdx .. (startIdx + ASSOCIATIVITY - 1) : cache[i].valid)
                      => /\ procs'[p].lineIndex = startIdx + setReplacementCounters[s]
                         /\ setReplacementCounters'[s] =
                                (setReplacementCounters[s] + 1) % ASSOCIATIVITY
                         /\ rr.set[s] = 0 => procs'[p].lineIndex = startIdx]_vars

\* the second round-robin eviction of a set: its second line, counter back at 0
C4_Witness ==
    \E p \in Procs :
        LET s == getSet(Address(p))
        IN  /\ mode = "set-associative"
            /\ procs[p].pc = "miss"
            /\ procs[p].replacedTag # Null
            /\ rr.set[s] = ASSOCIATIVITY
            /\ procs[p].lineIndex = s * ASSOCIATIVITY + 1
            /\ setReplacementCounters[s] = 0

\* C5: fully-associative mode.  A miss that finds all 8 lines valid takes
\* line nextReplacement and advances the counter by one modulo 8, so the
\* full-cache misses after a reset take lines 0, 1, ..., 7, 0, ...; the 9th
\* of nine accesses to distinct blocks takes line 0.
C5_GlobalRoundRobin ==
    [][\A p \in Procs :
          (mode = "fully-associative" /\ Missed(p)) =>
              /\ (\A i \in Lines : cache[i].valid)
                    => /\ procs'[p].lineIndex = nextReplacement
                       /\ nextReplacement' = (nextReplacement + 1) % CACHE_SIZE
                       /\ procs'[p].lineIndex = rr.global % CACHE_SIZE
              /\ (races = 0 /\ step = CACHE_SIZE + 1 /\ misses = CACHE_SIZE)
                    => /\ procs'[p].lineIndex = 0
                       /\ procs'[p].replacedTag # Null]_vars

\* the ninth full-cache miss since the reset: line 0 again
C5_Witness ==
    \E p \in Procs :
        /\ mode = "fully-associative"
        /\ procs[p].pc = "miss"
        /\ rr.global = CACHE_SIZE + 1
        /\ procs[p].lineIndex = 0
        /\ procs[p].replacedTag # Null
        /\ nextReplacement = 1

C8_TagsOfCurrentMode ==
    \A i \in Lines : cache[i].valid => tagMode[i] = mode

\* C9: the accesses begun since the last resetSimulation report what the
\* same sequence of accesses reports on a freshly initialized cache:
\* outcome, line index and evicted tag.
C9_ResetDeterminism ==
    \A p \in Procs :
        (procs[p].pc \in {"hit", "miss"} /\ procs[p].fresh)
            => Report(procs[p]) = procs[p].expect

\* the access of process p is between its guard and its return
Flying(p) == procs[p].pc \in {"cpu", "hit", "miss", "filled"}

C12_HitFrame ==
    [][\A p \in Procs :
          (Looked(p) /\ procs'[p].pc = "hit") =>
              LET L == procs'[p].lineIndex
              IN  /\ cache[L].valid /\ cache'[L].valid
                  /\ cache'[L].tag = cache[L].tag
                  /\ \A i \in Lines \ {L} : cache'[i] = cache[i]
                  /\ setReplacementCounters' = setReplacementCounters
                  /\ nextReplacement' = nextReplacement
                  /\ misses' = misses
                  /\ hits' = hits + 1
                  /\ cache'[L].lastAccess = step
                  /\ Head(procs[p].commands).operation = "LOAD"
                        => cache'[L].data = cache[L].data
                  /\ Head(procs[p].commands).operation = "STORE"
                        => cache'[L].data =
                               [kind |-> "Write", address |-> Address(p)]]_vars

\* a LOAD is hitting a line that a STORE had written, in a cache with other lines
C12_Witness ==
    \E p \in Procs :
        /\ procs[p].pc = "hit"
        /\ Head(procs[p].commands).operation = "LOAD"
        /\ cache[procs[p].lineIndex].data.kind = "Write"
        /\ cache[procs[p].lineIndex].lastAccess = step
        /\ Cardinality(ValidLines(cache)) > 1
        /\ hits > 0

\* C13: the evicted tag that a miss reports is `none' exactly when the
\* victim line is invalid right before the fill, and otherwise the tag
\* that the fill overwrites.
C13_EvictedTag ==
    [][\A p \in Procs :
          Filled(p) =>
              procs[p].replacedTag =
                  IF cache[procs[p].lineIndex].valid
                  THEN cache[procs[p].lineIndex].tag ELSE Null]_vars

\* C14: at most one access is between the isAnimating guard and its return.
C14_OneInFlight ==
    Cardinality({p \in Procs : Flying(p)}) <= 1

\* C15: while a batch waits between its command i and its command i+1,
\* lines, counters and mode stay as command i left them, and the wait ends
\* with the start of command i+1.
C15_BatchOrder ==
    [][\A p \in Procs :
          procs[p].pc = "delay" =>
              /\ \/ procs'[p] = procs[p]
                 \/ /\ procs'[p].pc = "cpu"
                    /\ procs'[p].commands = procs[p].commands
              /\ procs'[p].pc = "delay" =>
                    /\ cache' = cache
                    /\ setReplacementCounters' = setReplacementCounters
                    /\ nextReplacement' = nextReplacement
                    /\ mode' = mode]_vars

\* C16: a mode change requested while isAnimating is true is refused and
\* leaves mode, lines, counters, hits, misses and step as they were; and
\* state.mode does not change while an access is in flight.
C16_ModeChangeRefused ==
    [][/\ isAnimating => mode' = mode
       /\ lastOp'.op = "modeRefused" =>
              /\ isAnimating
              /\ mode' = mode
              /\ cache' = cache
              /\ setReplacementCounters' = setReplacementCounters
              /\ nextReplacement' = nextReplacement
              /\ hits' = hits /\ misses' = misses /\ step' = step
       /\ (\E p \in Procs : Flying(p)) => mode' = mode]_vars

\* C17: a call of the access function with a negative address is rejected
\* before any state is changed: lines, counters, hits, misses, step and
\* isAnimating are after the call what they were before it.
C17_RejectsBadAddress ==
    [][\A p \in Procs :
          (~Flying(p) /\ procs'[p].pc = "cpu"
             /\ Head(procs'[p].commands).address < 0)
              => /\ cache' = cache
                 /\ setReplacementCounters' = setReplacementCounters
                 /\ nextReplacement' = nextReplacement
                 /\ hits' = hits /\ misses' = misses /\ step' = step
                 /\ isAnimating' = isAnimating]_vars

\* the access of process p ends with this step, by return or by exception
Ended(p) == Flying(p) /\ procs'[p].pc \notin {"cpu", "hit", "miss", "filled"}

\* round-robin evictions since initializeCache, of all sets and of the whole array
Evictions ==
    LET Sum[s \in 0 .. numSets] == IF s = 0 THEN 0 ELSE rr.set[s - 1] + Sum[s - 1]
    IN  Sum[numSets] + rr.global

\* C18: an access is atomic.  It ends after its hit or after its fill and
\* never in between, and whenever the last access in flight has ended,
\* every counted step has been counted as a hit or as a miss and every
\* counted miss has filled a line: one that was invalid, or (set-associative
\* and fully-associative mode) the one its round-robin counter was advanced for.
C18_AtomicAccess ==
    [][\A p \in Procs :
          Ended(p) =>
              /\ procs[p].pc \in {"hit", "filled"}
              /\ (\A q \in Procs : procs'[q].pc \notin {"cpu", "hit", "miss", "filled"})
                    => /\ hits' + misses' = step'
                       /\ misses' > 0 => ValidLines(cache') # {}
                       /\ mode' # "direct" =>
                             misses' = Cardinality(ValidLines(cache')) + Evictions']_vars

\* C19: for every non-negative address, with blockNumber and offset such
\* that address = blockNumber * 16 + offset and 0 <= offset < 16: getOffset
\* is offset; direct: blockNumber = tag * 8 + index with 0 <= index < 8;
\* set-associative: blockNumber = tag * 4 + set with 0 <= set < 4;
\* fully-associative: tag = blockNumber; and the tag an access computes in
\* any cache state is the tag of this table.
C19_Decomposition ==
    /\ \A blockNumber \in 0 .. MaxProbeBlock, offset \in 0 .. (BLOCK_SIZE - 1) :
          LET address == blockNumber * 16 + offset
          IN  /\ getOffset(address) = offset
              /\ getIndex(address) \in 0 .. 7
              /\ blockNumber = getTag("direct", address) * 8 + getIndex(address)
              /\ getSet(address) \in 0 .. 3
              /\ blockNumber = getTag("set-associative", address) * 4 + getSet(address)
              /\ getTag("fully-associative", address) = blockNumber
    /\ \A p \in Procs :
          (procs[p].pc \in {"hit", "miss", "filled"} /\ Address(p) >= 0) =>
              \E blockNumber \in 0 .. Address(p) :
                  /\ blockNumber * 16 <= Address(p)
                  /\ Address(p) < (blockNumber + 1) * 16
                  /\ procs[p].tagMode = "direct" =>
                        /\ procs[p].tag * 8 <= blockNumber
                        /\ blockNumber < (procs[p].tag + 1) * 8
                  /\ procs[p].tagMode = "set-associative" =>
                        /\ procs[p].tag * 4 <= blockNumber
                        /\ blockNumber < (procs[p].tag + 1) * 4
                  /\ procs[p].tagMode = "fully-associative" =>
                        procs[p].tag = blockNumber

\* 0x1A4 is being accessed in set-associative mode: block 26, set 2, tag 6
C19_Witness ==
    \E p \in Procs :
        /\ procs[p].pc \in {"hit", "miss"}
        /\ Address(p) = 420
        /\ procs[p].tagMode = "set-associative"
        /\ procs[p].tag = 6
        /\ procs[p].lineIndex \in {4, 5}
        /\ Cardinality(ValidLines(cache)) > 0

\* what an access to the address would report in the current state
\* (outcome, line index or victim, evicted tag) and the valid bits, tags
\* and counters it would leave behind
Outcome(address) ==
    RefAccess([cache |-> cache,
               setReplacementCounters |-> setReplacementCounters,
               nextReplacement |-> nextReplacement], mode, address)

\* C20: in every cache state, two addresses of one block give the same
\* outcome, line index, victim, evicted tag, and the same valid bits, tags
\* and replacement counters after the access.
C20_OffsetIrrelevant ==
    \A blockNumber \in 0 .. MaxProbeBlock :
        LET base == Outcome(blockNumber * BLOCK_SIZE)
        IN  \A offset \in 1 .. (BLOCK_SIZE - 1) :
                Outcome(blockNumber * BLOCK_SIZE + offset) = base

\* 0x1A4 hits the line that an access to 0x1A0 filled, next to another block of its set
C20_Witness ==
    \E p \in Procs :
        /\ mode = "set-associative"
        /\ procs[p].pc = "hit"
        /\ Address(p) = 420
        /\ cache[procs[p].lineIndex].data = BlockData(416)
        /\ Cardinality(ValidLines(cache)) = ASSOCIATIVITY

\* the lines of the scope of an address are all valid
Full(m, address) == \A i \in Scope(m, address) : cache[i].valid

\* C21: the victim of a miss and the counters it leaves do not depend on
\* what hits have written: they are those of the same cache with data and
\* lastAccess of every line erased; a full set or a full cache gives up
\* the line its counter names also when that line was accessed last.
C21_NotAccessPatternAware ==
    [][\A p \in Procs :
          Missed(p) =>
              LET scrubbed == [i \in Lines |->
                                  [cache[i] EXCEPT !.data = NullData,
                                                   !.lastAccess = Null]]
                  fv == findVictimLine(scrubbed, mode, setReplacementCounters,
                                       nextReplacement, Address(p))
                  named == IF mode = "set-associative"
                           THEN getSet(Address(p)) * ASSOCIATIVITY
                                    + setReplacementCounters[getSet(Address(p))]
                           ELSE nextReplacement
              IN  /\ procs'[p].lineIndex = fv.victim
                  /\ setReplacementCounters' = fv.setReplacementCounters
                  /\ nextReplacement' = fv.nextReplacement
                  /\ (mode # "direct" /\ Full(mode, Address(p))
                        /\ \A i \in Lines : cache[i].lastAccess <= cache[named].lastAccess)
                       => procs'[p].lineIndex = named]_vars

\* a full cache is giving up the line that a STORE has just hit
C21_Witness ==
    \E p \in Procs :
        /\ mode # "direct"
        /\ procs[p].pc = "miss"
        /\ procs[p].replacedTag # Null
        /\ cache[procs[p].lineIndex].data.kind = "Write"
        /\ \A i \in Lines :
              /\ cache[i].valid
              /\ i # procs[p].lineIndex
                    => cache[i].lastAccess < cache[procs[p].lineIndex].lastAccess

\* C22: first in, first out.  A set-associative or fully-associative miss
\* that finds its scope completely valid takes the line of the scope whose
\* content was filled earliest.
C22_Fifo ==
    [][\A p \in Procs :
          (Missed(p) /\ mode # "direct" /\ Full(mode, Address(p))) =>
              procs'[p].lineIndex =
                  Head(SelectSeq(fifo, LAMBDA i : i \in Scope(mode, Address(p))))]_vars

\* the second eviction of a full cache: line 1, the oldest fill that is left
C22_Witness ==
    \E p \in Procs :
        /\ mode = "fully-associative"
        /\ procs[p].pc = "miss"
        /\ procs[p].replacedTag # Null
        /\ Len(fifo) = CACHE_SIZE
        /\ Head(fifo) = 1
        /\ procs[p].lineIndex = 1
        /\ fifo[CACHE_SIZE] = 0

\* C23: 8 lines and 4 per-set counters in every state, every per-set
\* counter in 0..1, the global counter in 0..7, and every line index that
\* searchCache or findVictimLine has returned in 0..7, equal to the block
\* number modulo 8 in direct mode and inside set (block number modulo 4)
\* in set-associative mode.
C23_Bounds ==
    /\ DOMAIN cache = 0 .. 7
    /\ DOMAIN setReplacementCounters = 0 .. 3
    /\ \A s \in DOMAIN setReplacementCounters : setReplacementCounters[s] \in 0 .. 1
    /\ nextReplacement \in 0 .. 7
    /\ \A p \in Procs :
          procs[p].pc \in {"hit", "miss", "filled"} =>
              LET blockNumber == Address(p) \div 16
                  lineIndex == procs[p].lineIndex
              IN  /\ lineIndex \in 0 .. 7
                  /\ procs[p].tagMode = "direct"
                        => (blockNumber - lineIndex) % 8 = 0
                  /\ procs[p].tagMode = "set-associative"
                        => (blockNumber - (lineIndex \div 2)) % 4 = 0

\* block 4 is taking a line of set 0 back from a cache whose counter of set 0 has wrapped
C23_Witness ==
    \E p \in Procs :
        /\ mode = "set-associative"
        /\ procs[p].pc = "miss"
        /\ Address(p) = 4 * BLOCK_SIZE
        /\ procs[p].replacedTag # Null
        /\ procs[p].lineIndex = 0
        /\ rr.set[0] = 3

\* the step is a resetSimulation, from the modal or from a mode change
Reinitialized == lastOp'.op \in {"reset", "modeChange"}

\* C24: a valid bit goes from false to true only with the fill of a miss
\* whose victim is that line and from true to false only with a reset or
\* an accepted mode change; without these two the number of valid lines
\* does not decrease.
C24_ValidLifecycle ==
    [][/\ \A i \in Lines :
             /\ (~cache[i].valid /\ cache'[i].valid)
                   => \E p \in Procs : Filled(p) /\ procs[p].lineIndex = i
             /\ (cache[i].valid /\ ~cache'[i].valid) => Reinitialized
       /\ ~Reinitialized
             => Cardinality(ValidLines(cache')) >= Cardinality(ValidLines(cache))]_vars

\* a STORE has hit a line, which stays valid among three valid lines
C24_Witness ==
    \E p \in Procs :
        /\ procs[p].pc = "hit"
        /\ Head(procs[p].commands).operation = "STORE"
        /\ cache[procs[p].lineIndex].valid
        /\ cache[procs[p].lineIndex].data.kind = "Write"
        /\ Cardinality(ValidLines(cache)) = 3

\* C25: step changes by +1 with the start of an access and to 0 with a
\* reset and not otherwise; every valid line has 1 <= lastAccess <= step;
\* no two valid lines share a lastAccess; the line an access has hit or
\* filled carries the step of that access.
C25_StepAndLastAccess ==
    [][/\ step' # step =>
             \/ Reinitialized /\ step' = 0
             \/ /\ step' = step + 1
                /\ \E p \in Procs : ~Flying(p) /\ procs'[p].pc = "cpu"
       /\ \A i \in Lines :
             cache'[i].valid =>
                 /\ 1 <= cache'[i].lastAccess
                 /\ cache'[i].lastAccess <= step'
                 /\ \A j \in Lines \ {i} :
                       cache'[j].valid => cache'[j].lastAccess # cache'[i].lastAccess
       /\ \A p \in Procs :
             (Filled(p) \/ (Looked(p) /\ procs'[p].pc = "hit"))
                 => cache'[procs'[p].lineIndex].lastAccess = step']_vars

\* C26: a set-associative miss of set s leaves the counters of the other
\* sets, the global counter and the lines outside set s alone; the global
\* counter moves only with a fully-associative miss on a full cache (and
\* with a reset); no counter moves in direct mode.
C26_CountersIndependent ==
    [][/\ \A p \in Procs :
             /\ (Missed(p) /\ mode = "set-associative") =>
                   /\ nextReplacement' = nextReplacement
                   /\ cache' = cache
                   /\ \A s \in Sets :
                         (Address(p) \div BLOCK_SIZE - s) % numSets # 0
                             => setReplacementCounters'[s] = setReplacementCounters[s]
             /\ (Filled(p) /\ procs[p].tagMode = "set-associative") =>
                   \A i \in Lines :
                       (Address(p) \div BLOCK_SIZE - i \div ASSOCIATIVITY) % numSets # 0
                           => cache'[i] = cache[i]
       /\ nextReplacement' # nextReplacement =>
             \/ Reinitialized
             \/ /\ mode = "fully-associative"
                /\ \A i \in Lines : cache[i].valid
                /\ \E p \in Procs : Missed(p)
       /\ (mode = "direct" /\ mode' = "direct") =>
             /\ setReplacementCounters' = setReplacementCounters
             /\ nextReplacement' = nextReplacement]_vars

\* set 0 has evicted three times and is evicting again; the other sets are full and untouched
C26_Witness ==
    \E p \in Procs :
        /\ mode = "set-associative"
        /\ procs[p].pc = "filled"
        /\ procs[p].replacedTag # Null
        /\ rr.set = [s \in Sets |-> IF s = 0 THEN 3 ELSE 0]
        /\ setReplacementCounters = [s \in Sets |-> IF s = 0 THEN 1 ELSE 0]
        /\ nextReplacement = 0
        /\ \A i \in Lines : cache[i].valid

\* C28: resetSimulation does not run between the start and the end of an
\* access: no call of it has found an access in flight, and no access in
\* flight has seen the cache reinitialized since it started.
C28_NoResetInFlight ==
    /\ races = 0
    /\ \A p \in Procs : Flying(p) => procs[p].fresh

\* C30: every command of a batch is counted as a hit or as a miss: the
\* wait after a command ends with the start of the next command, and a
\* batch ends with the hit or the fill of its last command.
C30_NoCommandDropped ==
    [][\A p \in Procs :
          /\ (procs[p].pc = "delay" /\ procs'[p] # procs[p])
                => /\ procs'[p].pc = "cpu"
                   /\ procs'[p].commands = procs[p].commands
          /\ (procs[p].pc # "none" /\ procs'[p].pc = "none")
                => /\ procs[p].pc \in {"hit", "filled"}
                   /\ Len(procs[p].commands) = 1]_vars

\* C29: a command text with a line that does not parse (bad syntax, a
\* register above 31, more than 8 hex digits) starts no access and leaves
\* the cache lines, the counters, hits, misses and step unchanged; every
\* batch that starts is the parse of a text whose lines are all valid.
C29_AllOrNothing ==
    [][/\ \A commandText \in BadTexts :
             executeCommandText(commandText, MaxStepText, 1) =>
                 UNCHANGED <<cache, setReplacementCounters, nextReplacement,
                             hits, misses, step, isAnimating, procs>>
       /\ \A p \in Procs :
             (procs[p].pc = "none" /\ procs'[p].pc = "cpu") =>
                 procs'[p].commands \in
                     {<<LOAD(0)>>, <<STORE(4)>>, <<LOAD(128), STORE(160)>>}]_vars

\* a text whose second line names register 32 was refused on a cache that holds lines
C29_Witness ==
    /\ lastOp.op = "parseError"
    /\ lastOp.from = "register"
    /\ ValidLines(cache) # {}
    /\ ~isAnimating
    /\ misses > 0

\* C31: hits + misses is step whenever no access is in flight and step - 1
\* or step while one is, and the lookup of an access adds one to exactly
\* one of hits and misses.
C31_StatsConsistent ==
    [][/\ (\A p \in Procs : procs'[p].pc \notin {"cpu", "hit", "miss", "filled"})
             => hits' + misses' = step'
       /\ (\E p \in Procs : procs'[p].pc \in {"cpu", "hit", "miss", "filled"})
             => hits' + misses' \in {step' - 1, step'}
       /\ \A p \in Procs :
             (Looked(p) /\ procs'[p].pc \in {"hit", "miss"}) =>
                 \/ hits' = hits + 1 /\ misses' = misses
                 \/ hits' = hits /\ misses' = misses + 1]_vars

\* C33: an access that ends with a runtime error leaves isAnimating
\* cleared, so that later accesses and the reset button are not refused.
C33_RecoversFromError ==
    [][\A p \in Procs :
          (Ended(p) /\ procs[p].pc = "cpu") => isAnimating' = FALSE]_vars

\* the number of the block whose data line i displays
BlockOf(i) == cache[i].data.address \div BLOCK_SIZE

\* C35: in direct mode every valid line i holds a block with
\* blockNumber mod 8 = i, in set-associative mode a block with
\* blockNumber mod 4 = floor(i / 2): every resident block is inside the
\* scope that searchCache scans for it.
C35_Placement ==
    \A i \in Lines :
        cache[i].valid =>
            /\ mode = "direct" => BlockOf(i) % 8 = i
            /\ mode = "set-associative" => BlockOf(i) % 4 = i \div 2
            /\ i \in Scope(mode, BlockOf(i) * BLOCK_SIZE)

\* C36: the valid lines are a prefix of the array in fully-associative
\* mode and a prefix of each set in set-associative mode, and a
\* round-robin counter is non-zero only over a scope whose lines are all
\* valid.
C36_FillOrder ==
    /\ mode = "fully-associative" =>
          \A i \in Lines : cache[i].valid => \A j \in 0 .. i : cache[j].valid
    /\ mode = "set-associative" =>
          \A s \in Sets :
              cache[s * ASSOCIATIVITY + 1].valid => cache[s * ASSOCIATIVITY].valid
    /\ \A s \in Sets :
          setReplacementCounters[s] # 0 =>
              \A i \in s * ASSOCIATIVITY .. s * ASSOCIATIVITY + 1 : cache[i].valid
    /\ nextReplacement # 0 => \A i \in Lines : cache[i].valid
\* C34: an access reports HIT at a line only if the block that line holds
\* is the block of the accessed address (same floor(address / 16)).
C34_NoFalseHit ==
    [][\A p \in Procs :
          (Looked(p) /\ procs'[p].pc = "hit")
              => BlockOf(procs'[p].lineIndex) = Address(p) \div 16]_vars
\* the fields that place an address: its tag and, in direct mode, its
\* index, in set-associative mode, its set
Place(m, address) ==
    <<getTag(m, address),
      IF m = "direct" THEN getIndex(address)
      ELSE IF m = "set-associative" THEN getSet(address) ELSE 0>>

\* C37: for every non-negative address the fields give the address back:
\* (tag * 8 + index) * 16 + offset in direct mode, (tag * 4 + set) * 16 +
\* offset in set-associative mode, tag * 16 + offset in fully-associative
\* mode, with 0 <= offset < 16, 0 <= index < 8, 0 <= set < 4; two
\* addresses have the same (tag, index or set) exactly when they are in
\* the same block; and an access is given back by the tag it computed and
\* the line it was sent to.
C37_Lossless ==
    /\ \A address \in 0 .. (MaxProbeBlock * BLOCK_SIZE + BLOCK_SIZE - 1) :
          /\ 0 <= getOffset(address) /\ getOffset(address) < 16
          /\ 0 <= getIndex(address) /\ getIndex(address) < 8
          /\ 0 <= getSet(address) /\ getSet(address) < 4
          /\ address = (getTag("direct", address) * 8 + getIndex(address)) * 16
                          + getOffset(address)
          /\ address = (getTag("set-associative", address) * 4 + getSet(address)) * 16
                          + getOffset(address)
          /\ address = getTag("fully-associative", address) * 16 + getOffset(address)
    /\ \A a \in 0 .. MaxProbeBlock, b \in 0 .. MaxProbeBlock, m \in Modes :
          (Place(m, a * BLOCK_SIZE) = Place(m, b * BLOCK_SIZE + BLOCK_SIZE - 1))
              <=> (a = b)
    /\ \A p \in Procs :
          (procs[p].pc \in {"hit", "miss", "filled"} /\ Address(p) >= 0) =>
              /\ procs[p].tagMode = "direct" =>
                    Address(p) = (procs[p].tag * 8 + procs[p].lineIndex) * 16
                                    + getOffset(Address(p))
              /\ procs[p].tagMode = "set-associative" =>
                    Address(p) = (procs[p].tag * 4 + procs[p].lineIndex \div 2) * 16
                                    + getOffset(Address(p))
              /\ procs[p].tagMode = "fully-associative" =>
                    Address(p) = procs[p].tag * 16 + getOffset(Address(p))

\* 0x1A4 has missed in direct mode: tag 3, index 2, offset 4
C37_Witness ==
    \E p \in Procs :
        /\ procs[p].pc = "miss"
        /\ procs[p].tagMode = "direct"
        /\ Address(p) = 420
        /\ procs[p].tag = 3
        /\ procs[p].lineIndex = 2
        /\ getOffset(Address(p)) = 4
\* C32: every access that has passed the isAnimating guard ends, and when
\* it has ended isAnimating is false.
C32_AccessEnds ==
    \A p \in Procs : Flying(p) ~> (~Flying(p) /\ ~isAnimating)

\* the first access of a batch has ended, after a reset that ran during an
\* access, and isAnimating is false during the pause before the next command
C32_Witness ==
    \E p \in Procs :
        /\ procs[p].pc = "delay"
        /\ ~isAnimating
        /\ races > 0
        /\ hits + misses > 0
\* C38: the event log holds at most 50 entries: the min(n, 50) most
\* recent of the n entries added since it was last emptied, newest first;
\* and a reset empties the log before it writes its RESET and MODE
\* entries, which are then the oldest of the log.
C38_LogBounded ==
    /\ Len(eventLog) <= 50
    /\ Len(eventLog) = Min({50, logged.kept})
    /\ \A i \in 1 .. Len(eventLog) : eventLog[i].time = logged.calls - i + 1
    /\ (logged.reset /\ logged.kept <= 50) =>
          /\ eventLog[logged.kept].message = "RESET -> Simulation ready"
          /\ eventLog[logged.kept - 1].message = ModeMessage(mode)

\* 51 entries were added after a reset: the log holds the latest 50
C38_Witness ==
    /\ logged.reset
    /\ logged.kept = 51
    /\ Len(eventLog) = 50
    /\ eventLog[50].message = ModeMessage(mode)
    /\ eventLog[1].time = logged.calls

====
